---- MODULE Spec2Model ----
(***************************************************************************)
(* A model of backend/remote_object.py: the AlarmSystem remote, the three  *)
(* GPIO devices it owns (Switch, SimpleOutput buzzer, MotionSensor), its   *)
(* alert/passive evaluation and its two rate limiters.                     *)
(*                                                                         *)
(* The module runs with __debug__ true (the hardware branch of every       *)
(* `if __debug__`).  A call (a constructor, input(), output(), close()) is *)
(* one step.  An exception is the flag `raised` of the call's machine      *)
(* state: once it is set, every later statement of the call is skipped.    *)
(* The clock is sampled once per call: every int(time.time()) of one call  *)
(* reads the same second.                                                  *)
(***************************************************************************)
EXTENDS Integers, Sequences, FiniteSets, TLC

VARIABLES
    phase,  \* "new": not constructed; "live"; "failed": __init__ raised; "closed"
    alarm,  \* the fields of the AlarmSystem object and of its three devices
    held,   \* the pins the GPIO platform holds reserved for a live device
    now,    \* the clock: the second read by the most recent call
    call,   \* what the most recent call did: its name, whether it raised, the
            \* calls it made on its collaborators (GPIO, mail, camera, database)
            \* and the two timestamps it found on entry
    sensor  \* a MotionSensor remote of its own (no part of an AlarmSystem): its
            \* life ("new", "live", "failed", "closed") and its fields

vars == <<phase, alarm, held, now, call, sensor>>

\* ---------------------------------------------------------------- constants

MIN_GPIO == 4
MAX_GPIO == 26
EMAIL_MAX_TIME == 3600
PHOTO_MAX_TIME == 3

\* Python's None, for the nullable timestamps and for a closed device handle;
\* a set value v is <<v>>.
NONE == <<>>

\* ------------------------------------------------------------------- bounds

\* Configuration records draw their pins from MIN_GPIO .. MIN_GPIO + MaxPin.
MaxPin == 3
\* The clock reads a second of 0 .. MaxSmall, or one of the first two seconds
\* past a multiple (1 .. MaxBig) of EMAIL_MAX_TIME, so that readings 2, 3, 4
\* and 3599, 3600, 3601 apart occur.
MaxSmall == 4
MaxBig == 1

PinSet == MIN_GPIO .. (MIN_GPIO + MaxPin)
ClockSet ==
    (0..MaxSmall) \cup {b * EMAIL_MAX_TIME + s : b \in 1..MaxBig, s \in 0..1}
EmailSet == {"a@x.org", "a@x.org, b@y.org"}
Devices == {"switch", "buzzer", "motion"}

\* ------------------------------------------------------- the call's machine
\* m = [a: the object, held: the platform, raised: an exception is in flight,
\*      trace: the calls made on the collaborators, as <<method, target>>,
\*      key: the pin the database record written is matched by]

Emit(m, ev) == [m EXCEPT !.trace = Append(@, ev)]

Raise(m) == [m EXCEPT !.raised = TRUE]

Count(trace, name) == Cardinality({i \in 1..Len(trace) : trace[i][1] = name})

Range(trace) == {trace[i] : i \in 1..Len(trace)}

\* ------------------------------------------------------------ RemoteAbstract

\* self.device = self.Type(self.pin): the platform raises when the pin is
\* already reserved by a live device, or when it refuses this device's request
\* for a reason of its own (`fault` names what fails in this call: a device's
\* acquisition, the mailer, or nothing; the first failure ends the call, so one
\* fault per call covers every outcome).
acquire(m, which, fault) ==
    LET p == m.a[which].pin IN
    IF which # fault /\ p \notin m.held
    THEN Emit([m EXCEPT !.a[which].device = <<p>>, !.held = @ \cup {p}],
              <<"acquire", which>>)
    ELSE Raise(Emit(m, <<"refused", which>>))

\* self.device.close(): releases the pin the handle holds; closing a closed
\* handle does nothing.
close(m, which) ==
    LET d == m.a[which].device IN
    IF d = NONE THEN m
    ELSE Emit([m EXCEPT !.a[which].device = NONE, !.held = @ \ {d[1]}],
              <<"release", which>>)

\* A _change_pin that asks for the new pin before it closes the old handle.
change_pin_acquire_first(m, which, fault) ==
    IF m.raised THEN m
    ELSE IF which = fault \/ m.a[which].pin \in m.held
         THEN Raise(Emit(m, <<"refused", which>>))
         ELSE acquire(close(m, which), which, fault)

\* A _change_pin that does not close the old handle.
change_pin_keeps_old(m, which, fault) ==
    IF m.raised THEN m ELSE acquire(m, which, fault)

\* RemoteAbstract._change_pin: close, then acquire on self.pin (already the
\* new pin).
change_pin(m, which, fault) ==
    IF m.raised THEN m ELSE acquire(close(m, which), which, fault)

\* RemoteAbstract.input: the pin is stored before the device is rebound.
RemoteAbstract_input(m, which, pin, fault) ==
    IF m.raised THEN m
    ELSE IF m.a[which].pin # pin
         THEN change_pin([m EXCEPT !.a[which].pin = pin], which, fault)
         ELSE m

\* SimpleInput.is_active: self.device.is_active; a closed handle raises.
is_active(m, which) == m.a[which].device # NONE

\* The level of the buzzer's output pin: a closed handle drives nothing, and a
\* new OutputDevice starts off; on()/off() set the level they asked for last.
buzzer_active(a) == a.buzzer.device # NONE /\ a.buzzer.level

\* SimpleOutput.on / off: self.device.on() / off(); a closed handle raises.
set_level(m, level) ==
    IF m.raised THEN m
    ELSE IF m.a.buzzer.device = NONE THEN Raise(m)
         ELSE Emit([m EXCEPT !.a.buzzer.level = level],
                   <<IF level THEN "on" ELSE "off", "buzzer">>)

\* SimpleOutput's device is rebound: the new OutputDevice starts off.
SimpleOutput_input(m, pin, fault) ==
    LET r == RemoteAbstract_input(m, "buzzer", pin, fault) IN
    IF r.a.buzzer.device # m.a.buzzer.device
    THEN [r EXCEPT !.a.buzzer.level = FALSE]
    ELSE r

\* -------------------------------------------------- SimpleInput, MotionSensor

\* A level read from a sensor, as the call's trace records it.
level_read(which, level) == <<IF level THEN "active" ELSE "inactive", which>>

\* A MotionSensor.output() that reports the instantaneous level: it unsets
\* data when the sensor is inactive.
MotionSensor_output_instant(m, level, t) ==
    IF ~is_active(m, "sensor") THEN Raise(m)
    ELSE LET m1 == Emit(m, level_read("sensor", level))
             m2 == [m1 EXCEPT !.a.sensor.data = IF level THEN <<t>> ELSE NONE]
         IN  Emit([m2 EXCEPT !.key = <<m2.a.sensor.pin>>],
                  <<"update", "database">>)

\* MotionSensor.output(database, query): `if self.is_active(): self.data =
\* int(time.time())`, then SimpleInput.output and RemoteAbstract.output write
\* {"data": self.data} to the record matched by self.pin.
MotionSensor_output(m, level, t) ==
    IF ~is_active(m, "sensor") THEN Raise(m)
    ELSE LET m1 == Emit(m, level_read("sensor", level))
             m2 == IF level THEN [m1 EXCEPT !.a.sensor.data = <<t>>] ELSE m1
         IN  Emit([m2 EXCEPT !.key = <<m2.a.sensor.pin>>],
                  <<"update", "database">>)

\* ---------------------------------------------------------------- AlarmSystem

\* A take_photo that does not stamp.
take_photo_unstamped(m, t) ==
    IF m.raised THEN m ELSE Emit(m, <<"photo", "camera">>)

\* take_photo(): the camera, then the stamp.
take_photo(m, t) ==
    IF m.raised THEN m
    ELSE Emit([m EXCEPT !.a.last_picture_taken = <<t>>], <<"photo", "camera">>)

\* A send_email that does not stamp.
send_email_unstamped(m, t, fault) ==
    IF m.raised THEN m
    ELSE IF fault = "mail" THEN Raise(Emit(m, <<"email_failed", "mailer">>))
         ELSE Emit(m, <<"email", "mailer">>)

\* A send_email that stamps before it calls the mailer.
send_email_stamps_first(m, t, fault) ==
    IF m.raised THEN m
    ELSE LET m1 == [m EXCEPT !.a.last_email_sent = <<t>>] IN
         IF fault = "mail" THEN Raise(Emit(m1, <<"email_failed", "mailer">>))
         ELSE Emit(m1, <<"email", "mailer">>)

\* send_email(): the mailer, then the stamp.
send_email(m, t, fault) ==
    IF m.raised THEN m
    ELSE IF fault = "mail" THEN Raise(Emit(m, <<"email_failed", "mailer">>))
         ELSE Emit([m EXCEPT !.a.last_email_sent = <<t>>], <<"email", "mailer">>)

\* An email limiter that fires at the limit itself.
email_due_at_limit(a, t) ==
    a.last_email_sent = NONE \/ t - a.last_email_sent[1] >= EMAIL_MAX_TIME

\* alert_mode's first condition.
email_due(a, t) ==
    a.last_email_sent = NONE \/ t - a.last_email_sent[1] > EMAIL_MAX_TIME

\* A photo limiter that fires at the limit itself.
photo_due_at_limit(a, t) ==
    a.last_picture_taken = NONE \/ t - a.last_picture_taken[1] >= PHOTO_MAX_TIME

\* alert_mode's second condition.
photo_due(a, t) ==
    a.last_picture_taken = NONE \/ t - a.last_picture_taken[1] > PHOTO_MAX_TIME

\* alert_mode(): the buzzer on, then the email limiter, then the photo limiter.
alert_mode(m, t, fault) ==
    LET m1 == set_level(m, TRUE)
        m2 == IF ~m1.raised /\ email_due(m1.a, t)
              THEN send_email(m1, t, fault) ELSE m1
        m3 == IF ~m2.raised /\ photo_due(m2.a, t)
              THEN take_photo(m2, t) ELSE m2
    IN  m3

\* A passive_mode that keeps the email stamp.
passive_mode_keeps_email(m) ==
    IF m.raised THEN m ELSE set_level(m, FALSE)

\* A passive_mode that unsets the photo stamp too.
passive_mode_resets_photo(m) ==
    IF m.raised THEN m
    ELSE set_level([m EXCEPT !.a.last_email_sent = NONE,
                             !.a.last_picture_taken = NONE], FALSE)

\* passive_mode(): unset the email stamp, then switch the buzzer off.
passive_mode(m) ==
    IF m.raised THEN m
    ELSE set_level([m EXCEPT !.a.last_email_sent = NONE], FALSE)

\* An evaluation that ignores keep_on.
is_alert_when_open(a) == a.door_open

\* An evaluation that ignores the door.
is_alert_when_armed(a) == a.keep_on

\* `if self.keep_on and self.door_open` of input().
is_alert(a) == a.keep_on /\ a.door_open

\* self.door_open = not self.switch.is_active(), with the level the switch
\* senses; self.motion_detected = self.motion.is_active().  Each read of a
\* level is a call on the device, recorded with the level it returned.
read_sensors(m, sw, mo) ==
    IF m.raised THEN m
    ELSE IF ~is_active(m, "switch") THEN Raise(m)
    ELSE LET m1 == Emit([m EXCEPT !.a.door_open = ~sw],
                        level_read("switch", sw)) IN
         IF ~is_active(m1, "motion") THEN Raise(m1)
         ELSE Emit([m1 EXCEPT !.a.motion_detected = mo],
                   level_read("motion", mo))

\* A photo-toggle branch that does not store the new value.
photo_toggle_forgets(m, toggle, t) ==
    IF m.raised \/ toggle = m.a.photo_toggle THEN m ELSE take_photo(m, t)

\* The photo-toggle branch of input().
photo_toggle_step(m, toggle, t) ==
    IF m.raised \/ toggle = m.a.photo_toggle THEN m
    ELSE LET r == take_photo(m, t) IN
         IF r.raised THEN r ELSE [r EXCEPT !.a.photo_toggle = toggle]

\* An input() that stores emails and keep_on before it rebinds the devices.
AlarmSystem_input_config_first(m, data, t, env) ==
    LET m0 == [m EXCEPT !.a.emails = data.emails, !.a.keep_on = data.keep_on]
        m1 == RemoteAbstract_input(m0, "switch", data.pin, env.fault)
        m2 == SimpleOutput_input(m1, data.pin_buzzer, env.fault)
        m3 == RemoteAbstract_input(m2, "motion", data.pin_motion, env.fault)
        m5 == read_sensors(m3, env.sw, env.mo)
        m6 == photo_toggle_step(m5, data.photo_toggle, t)
    IN  IF m6.raised THEN m6
        ELSE IF is_alert(m6.a) THEN alert_mode(m6, t, env.fault)
        ELSE passive_mode(m6)

\* AlarmSystem.input(data) at second t, with the environment of the call: what
\* fails in it (env.fault) and the levels the switch and the motion sensor
\* sense (env.sw, env.mo).
AlarmSystem_input(m, data, t, env) ==
    LET m1 == RemoteAbstract_input(m, "switch", data.pin, env.fault)
        m2 == SimpleOutput_input(m1, data.pin_buzzer, env.fault)
        m3 == RemoteAbstract_input(m2, "motion", data.pin_motion, env.fault)
        m4 == IF m3.raised THEN m3
              ELSE [m3 EXCEPT !.a.emails = data.emails,
                              !.a.keep_on = data.keep_on]
        m5 == read_sensors(m4, env.sw, env.mo)
        m6 == photo_toggle_step(m5, data.photo_toggle, t)
    IN  IF m6.raised THEN m6
        ELSE IF is_alert(m6.a) THEN alert_mode(m6, t, env.fault)
        ELSE passive_mode(m6)

\* An output() whose photo goes through the photo limiter.
AlarmSystem_output_limited(m, t) ==
    LET m1 == IF m.a.motion_detected /\ photo_due(m.a, t)
              THEN take_photo(m, t) ELSE m
    IN  IF m1.raised THEN m1
        ELSE Emit([m1 EXCEPT !.key = <<m1.a.pin>>], <<"update", "database">>)

\* An output() that clears motion_detected once its photo is taken.
AlarmSystem_output_clears_motion(m, t) ==
    LET m1 == IF m.a.motion_detected THEN take_photo(m, t) ELSE m
    IN  IF m1.raised THEN m1
        ELSE Emit([m1 EXCEPT !.key = <<m1.a.pin>>, !.a.motion_detected = FALSE],
                  <<"update", "database">>)

\* AlarmSystem.output(database, query): the record written has door_open, the
\* motion stamp when motion was detected, and the newest photo; it is keyed by
\* self.pin.
AlarmSystem_output(m, t) ==
    LET m1 == IF m.a.motion_detected THEN take_photo(m, t) ELSE m
    IN  IF m1.raised THEN m1
        ELSE Emit([m1 EXCEPT !.key = <<m1.a.pin>>], <<"update", "database">>)

\* AlarmSystem.close()
AlarmSystem_close(m) == close(close(close(m, "switch"), "buzzer"), "motion")

\* A device before its constructor has run.
NoDevice == [pin |-> MIN_GPIO, device |-> NONE]

Blank ==
    [pin |-> MIN_GPIO,
     switch |-> NoDevice,
     buzzer |-> [pin |-> MIN_GPIO, device |-> NONE, level |-> FALSE],
     motion |-> NoDevice,
     emails |-> "",
     keep_on |-> FALSE,
     photo_toggle |-> FALSE,
     motion_detected |-> FALSE,
     door_open |-> FALSE,
     last_email_sent |-> NONE,
     last_picture_taken |-> NONE]

\* RemoteAbstract.__init__ of one device: the pin, then the handle.
RemoteAbstract_init(m, which, pin, fault) ==
    IF m.raised THEN m
    ELSE acquire([m EXCEPT !.a[which].pin = pin], which, fault)

\* AlarmSystem.__init__(dic): the except clauses re-raise and release nothing.
AlarmSystem_init(m, dic, fault) ==
    LET m0 == [m EXCEPT !.a.pin = dic.pin]
        m1 == RemoteAbstract_init(m0, "switch", dic.pin, fault)
        m2 == RemoteAbstract_init(m1, "buzzer", dic.pin_buzzer, fault)
        m3 == RemoteAbstract_init(m2, "motion", dic.pin_motion, fault)
    IN  IF m3.raised THEN m3
        ELSE [m3 EXCEPT !.a.emails = dic.emails,
                        !.a.keep_on = dic.keep_on,
                        !.a.photo_toggle = dic.photo_toggle,
                        !.a.motion_detected = FALSE,
                        !.a.door_open = FALSE,
                        !.a.last_email_sent = NONE,
                        !.a.last_picture_taken = NONE]

\* --------------------------------------------------------------------- steps

Machine ==
    [a |-> alarm, held |-> held, raised |-> FALSE, trace |-> <<>>, key |-> NONE]

Entry == [last_email_sent |-> alarm.last_email_sent,
          last_picture_taken |-> alarm.last_picture_taken]

\* A call's outcome becomes the next state.
Becomes(name, m, next_phase, t) ==
    /\ UNCHANGED sensor
    /\ alarm' = m.a
    /\ held' = m.held
    /\ now' = t
    /\ phase' = next_phase
    /\ call' = [op |-> name, raised |-> m.raised, trace |-> m.trace,
                key |-> m.key, entry |-> Entry]

Record(w, emails, keep_on, photo_toggle) ==
    [pin |-> w[1], pin_buzzer |-> w[2], pin_motion |-> w[3],
     emails |-> emails, keep_on |-> keep_on, photo_toggle |-> photo_toggle]

Construct(dics, faults) ==
    /\ phase = "new"
    /\ \E dic \in dics, fault \in faults :
          LET m == AlarmSystem_init(Machine, dic, fault) IN
          Becomes("init", m, IF m.raised THEN "failed" ELSE "live", now)

Input(datas, envs, clock) ==
    /\ phase = "live"
    /\ \E data \in datas, env \in envs, t \in clock :
          /\ t >= now
          /\ Becomes("input", AlarmSystem_input(Machine, data, t, env), "live", t)

Output(clock) ==
    /\ phase = "live"
    /\ \E t \in clock :
          /\ t >= now
          /\ Becomes("output", AlarmSystem_output(Machine, t), "live", t)

Close ==
    /\ phase = "live"
    /\ Becomes("close", AlarmSystem_close(Machine), "closed", now)

\* A MotionSensor before its constructor has run.
NoSensor == [life |-> "new", pin |-> MIN_GPIO, device |-> NONE, data |-> NONE]

\* The machine of a call on the MotionSensor.
SensorMachine ==
    [a |-> [sensor |-> sensor], held |-> held, raised |-> FALSE,
     trace |-> <<>>, key |-> NONE]

SensorBecomes(name, m, next_life, t) ==
    /\ UNCHANGED <<phase, alarm>>
    /\ sensor' = [m.a.sensor EXCEPT !.life = next_life]
    /\ held' = m.held
    /\ now' = t
    /\ call' = [op |-> name, raised |-> m.raised, trace |-> m.trace,
                key |-> m.key, entry |-> Entry]

\* MotionSensor(dic): RemoteAbstract.__init__ with the Motion type, then
\* SimpleInput.__init__ sets data to None.
SensorConstruct(pins, faults) ==
    /\ sensor.life = "new"
    /\ \E pin \in pins, fault \in faults :
          LET m == RemoteAbstract_init(SensorMachine, "sensor", pin, fault) IN
          SensorBecomes("sensor.init", [m EXCEPT !.a.sensor.data = NONE],
                        IF m.raised THEN "failed" ELSE "live", now)

\* MotionSensor.input(data) is RemoteAbstract.input.
SensorInput(pins, faults) ==
    /\ sensor.life = "live"
    /\ \E pin \in pins, fault \in faults :
          SensorBecomes("sensor.input",
                        RemoteAbstract_input(SensorMachine, "sensor", pin, fault),
                        "live", now)

SensorOutput(clock) ==
    /\ sensor.life = "live"
    /\ \E level \in BOOLEAN, t \in clock :
          /\ t >= now
          /\ SensorBecomes("sensor.output",
                           MotionSensor_output(SensorMachine, level, t),
                           "live", t)

\* RemoteAbstract.close()
SensorClose ==
    /\ sensor.life = "live"
    /\ SensorBecomes("sensor.close", close(SensorMachine, "sensor"),
                     "closed", now)

Init ==
    /\ phase = "new"
    /\ alarm = Blank
    /\ sensor = NoSensor
    /\ held = {}
    /\ now = 0
    /\ call = [op |-> "none", raised |-> FALSE, trace |-> <<>>, key |-> NONE,
               entry |-> Entry]

\* ------------------------------------------------------------ specifications

\* The wiring the object records now, and a first wiring.
SameWiring == <<alarm.switch.pin, alarm.buzzer.pin, alarm.motion.pin>>

FirstWiring == <<MIN_GPIO, MIN_GPIO + 1, MIN_GPIO + 2>>

\* Every wiring of three distinct pins.
Wirings == {w \in PinSet \X PinSet \X PinSet : Cardinality({w[1], w[2], w[3]}) = 3}

\* The alarm over time: the wiring and the recipients stay as constructed, the
\* platform refuses nothing, the mailer may fail (it is reached only with the
\* door open, the switch inactive).
Next ==
    \/ Construct({Record(FirstWiring, "a@x.org", k, p) : k, p \in BOOLEAN},
                 {"none"})
    \/ Input({Record(SameWiring, alarm.emails, k, p) : k, p \in BOOLEAN},
             [fault : {"none"}, sw : BOOLEAN, mo : BOOLEAN]
                 \cup [fault : {"mail"}, sw : {FALSE}, mo : BOOLEAN],
             ClockSet)
    \/ Output(ClockSet)
    \/ Close

Spec == Init /\ [][Next]_vars

\* The alarm under reconfiguration: constructed on the first wiring (any other
\* is this one with the pins renamed), it is moved to any wiring of distinct
\* pins, and the platform may refuse a device; the alarm is disarmed and the
\* door closed, the clock stays at its first second, the recipients and the
\* photo toggle stay as constructed.
NextPins ==
    \/ Construct({Record(FirstWiring, "a@x.org", FALSE, FALSE)},
                 Devices \cup {"none"})
    \/ Input({Record(w, alarm.emails, alarm.keep_on, alarm.photo_toggle) :
                 w \in Wirings},
             [fault : Devices \cup {"none"}, sw : {TRUE}, mo : {FALSE}],
             {0})
    \/ Output({0})
    \/ Close

SpecPins == Init /\ [][NextPins]_vars

\* The alarm while its buzzer is rewired: the buzzer's pin is any pin (one of
\* another device is refused as reserved), the platform may refuse the buzzer,
\* the alarm is armed and disarmed and the door opens and closes.
NextBuzzer ==
    \/ Construct({Record(FirstWiring, "a@x.org", k, FALSE) : k \in BOOLEAN},
                 {"none"})
    \/ Input({Record(<<alarm.switch.pin, b, alarm.motion.pin>>, alarm.emails, k,
                     alarm.photo_toggle) : b \in PinSet, k \in BOOLEAN},
             [fault : {"none", "buzzer"}, sw : BOOLEAN, mo : {FALSE}],
             {0})
    \/ Output({0})
    \/ Close

SpecBuzzer == Init /\ [][NextBuzzer]_vars

\* Pins next to the valid range on either side.  The platform knows nothing of
\* MIN_GPIO and MAX_GPIO: it grants such a pin or refuses it, as it sees fit.
OutOfRange == {MIN_GPIO - 1, MAX_GPIO + 1}

\* The wirings that move at most one device of the present wiring to a pin of
\* `pins`.
Rewirings(pins) ==
    {[SameWiring EXCEPT ![i] = p] : i \in 1..3, p \in pins}

\* The alarm handed pins that no form validated: one device at a time is moved
\* to a pin in the range or next to it, and the platform may refuse any
\* device; the alarm is disarmed, the door closed, the clock at its first
\* second.
NextRange ==
    \/ Construct({Record(FirstWiring, "a@x.org", FALSE, FALSE)}, {"none"})
    \/ Input({Record(w, alarm.emails, alarm.keep_on, alarm.photo_toggle) :
                 w \in Rewirings(PinSet \cup OutOfRange)},
             [fault : Devices \cup {"none"}, sw : {TRUE}, mo : {FALSE}],
             {0})
    \/ Output({0})
    \/ Close

SpecRange == Init /\ [][NextRange]_vars

\* The wirings of a call that moves one device from its first pin to the
\* spare pin, or back, or leaves the wiring as it is.
Moves ==
    {SameWiring} \cup (IF SameWiring = FirstWiring
                       THEN Rewirings({MIN_GPIO + MaxPin})
                       ELSE {FirstWiring})

\* The alarm reconfigured while it runs: one device at a time is moved to the
\* spare pin or back, which the platform may refuse, while the recipients,
\* keep_on, the photo toggle and the sensed levels change from call to call;
\* the clock stays at its first second.  (A refusal ends the call before the
\* sensors are read: the levels are enumerated for the calls without one.)
NextRaise ==
    \/ Construct({Record(FirstWiring, "a@x.org", k, FALSE) : k \in BOOLEAN},
                 {"none"})
    \/ Input({Record(w, e, k, p) : w \in Moves, e \in EmailSet,
                                   k, p \in BOOLEAN},
             [fault : {"none"}, sw : BOOLEAN, mo : BOOLEAN]
                 \cup [fault : Devices, sw : {FALSE}, mo : {TRUE}],
             {0})
    \/ Output({0})
    \/ Close

SpecRaise == Init /\ [][NextRaise]_vars

\* A MotionSensor of its own: it is moved between the pins, the platform may
\* refuse it, and it is polled over time.
NextMotion ==
    \/ SensorConstruct(PinSet, {"none", "sensor"})
    \/ SensorInput(PinSet, {"none", "sensor"})
    \/ SensorOutput(ClockSet)
    \/ SensorClose

SpecMotion == Init /\ [][NextMotion]_vars

\* --------------------------------------------------------------- observations

\* The most recent call was an input() that returned normally.
Returned == call.op = "input" /\ ~call.raised

\* What that input() evaluated to, from the values it stored.
Alert == alarm.keep_on /\ alarm.door_open

Emails == Count(call.trace, "email")

Photos == Count(call.trace, "photo")

\* The most recent call handed a message to the mailer (which sent it or
\* failed).
Mailed == Emails + Count(call.trace, "email_failed") > 0

\* The photos taken after the buzzer was switched on: alert_mode's own.  A
\* photo taken before the buzzer was switched is the photo toggle's.
AlertPhotos ==
    Cardinality({j \in 1..Len(call.trace) :
        /\ call.trace[j][1] = "photo"
        /\ \E i \in 1..(j - 1) : call.trace[i][1] = "on"})

TogglePhotos == Photos - AlertPhotos

\* The mailer raised in the most recent call, an input().
MailFailed ==
    call.op = "input" /\ <<"email_failed", "mailer">> \in Range(call.trace)

\* The platform refused a device its new pin in the most recent call, an
\* input().
Refused ==
    /\ call.op = "input"
    /\ \E d \in Devices : <<"refused", d>> \in Range(call.trace)

\* The level the most recent call read from a sensor: <<level>>, or NONE when
\* the call did not read it.
Sensed(which) ==
    IF level_read(which, TRUE) \in Range(call.trace) THEN <<TRUE>>
    ELSE IF level_read(which, FALSE) \in Range(call.trace) THEN <<FALSE>>
    ELSE NONE

\* How often the most recent call asked the platform for a pin for the
\* device.
Asks(which) ==
    Cardinality({i \in 1..Len(call.trace) :
        call.trace[i] \in {<<"acquire", which>>, <<"refused", which>>}})

Asked(which) == Asks(which) > 0

\* In the most recent call, the device's handle was released and the platform
\* was asked for its pin right after, and for no pin of this device before.
ReleasedThenAsked(which) ==
    \E i \in 1..(Len(call.trace) - 1) :
        /\ call.trace[i] = <<"release", which>>
        /\ call.trace[i + 1] \in {<<"acquire", which>>, <<"refused", which>>}
        /\ \A j \in 1..(i - 1) : call.trace[j][2] # which

\* The pins of the live handles of the object's three devices.
Handles == {alarm[d].device[1] : d \in {x \in Devices : alarm[x].device # NONE}}

\* --------------------------------------------------------------------- claims

\* C1: after every AlarmSystem.input() that returns normally, a call that
\* rebinds the buzzer included, the buzzer is active exactly when the keep_on
\* of the call is true and the switch was sensed inactive (the door open).
C1_BuzzerIffAlert ==
    Returned => (buzzer_active(alarm) <=> (alarm.keep_on /\ alarm.door_open))

\* An armed input() with the door open moved the buzzer to a new pin and left
\* it sounding there.
C1_Witness ==
    /\ Returned
    /\ \E i \in 1..Len(call.trace) : call.trace[i] = <<"acquire", "buzzer">>
    /\ alarm.keep_on /\ alarm.door_open
    /\ buzzer_active(alarm)

\* C2: an input() that evaluates to PASSIVE leaves last_email_sent unset, an
\* output() does not set it, and an input() that evaluates to ALERT and finds
\* it unset sends an email and stamps it: so the first ALERT input() after a
\* PASSIVE one sends, however recent the email before.
C2_PassiveResetsEmail ==
    [][/\ (Returned' /\ ~Alert') => alarm'.last_email_sent = NONE
       /\ call'.op = "output" => alarm'.last_email_sent = alarm.last_email_sent
       /\ (Returned' /\ Alert' /\ alarm.last_email_sent = NONE) =>
              (Emails' = 1 /\ alarm'.last_email_sent = <<now'>>)]_vars

\* An ALERT input() found last_email_sent unset and sent an email, within the
\* photo cooldown of an earlier cycle's photo (so it took no photo of its own).
C2_Witness ==
    /\ Returned /\ Alert
    /\ call.entry.last_email_sent = NONE
    /\ Emails = 1
    /\ call.entry.last_picture_taken # NONE
    /\ Photos = 0

\* C3: when alert_mode() runs at second `now` in an input() that returns
\* normally, it sends an email and sets last_email_sent to `now` exactly when
\* last_email_sent was unset or more than 3600 seconds before `now`; otherwise
\* it sends nothing and leaves last_email_sent as it was.
C3_EmailCooldown ==
    (Returned /\ Alert) =>
        LET T == call.entry.last_email_sent IN
        IF T = NONE \/ now - T[1] > 3600
        THEN Emails = 1 /\ alarm.last_email_sent = <<now>>
        ELSE Emails = 0 /\ alarm.last_email_sent = T

\* alert_mode() ran 3601 seconds after the last email and sent one.
C3_Witness ==
    /\ Returned /\ Alert
    /\ call.entry.last_email_sent # NONE
    /\ now = call.entry.last_email_sent[1] + 3601
    /\ Emails = 1
    /\ alarm.last_email_sent = <<now>>

\* C4: when alert_mode() runs at second `now` in an input() that returns
\* normally, it takes a photo and sets last_picture_taken to `now` exactly when
\* last_picture_taken (as the photo toggle of the same call left it) was unset
\* or more than 3 seconds before `now`; otherwise it takes none.
C4_PhotoCooldown ==
    (Returned /\ Alert) =>
        LET T == IF TogglePhotos > 0 THEN <<now>>
                 ELSE call.entry.last_picture_taken IN
        IF T = NONE \/ now - T[1] > 3
        THEN AlertPhotos = 1 /\ alarm.last_picture_taken = <<now>>
        ELSE AlertPhotos = 0 /\ alarm.last_picture_taken = T

\* alert_mode() ran 4 seconds after the last photo and took one.
C4_Witness ==
    /\ Returned /\ Alert
    /\ call.entry.last_picture_taken # NONE
    /\ now = call.entry.last_picture_taken[1] + 4
    /\ AlertPhotos = 1 /\ TogglePhotos = 0

\* C5: an input() that evaluates to PASSIVE and takes no photo leaves
\* last_picture_taken as it was, and an ALERT input() whose photo toggle did
\* not fire takes a photo only if last_picture_taken was unset or more than 3
\* seconds old: the photo cooldown runs on across a PASSIVE cycle.
C5_PassiveKeepsPhotoStamp ==
    /\ (Returned /\ ~Alert /\ Photos = 0) =>
           alarm.last_picture_taken = call.entry.last_picture_taken
    /\ (Returned /\ Alert /\ TogglePhotos = 0 /\ AlertPhotos > 0) =>
           \/ call.entry.last_picture_taken = NONE
           \/ now - call.entry.last_picture_taken[1] > 3

\* A PASSIVE input() that followed an ALERT cycle (it found an email stamp and
\* unset it) ran within 3 seconds of a photo and left the photo stamp in place.
C5_Witness ==
    /\ Returned /\ ~Alert /\ Photos = 0
    /\ call.entry.last_email_sent # NONE
    /\ alarm.last_email_sent = NONE
    /\ alarm.last_picture_taken # NONE
    /\ alarm.last_picture_taken = call.entry.last_picture_taken
    /\ now - alarm.last_picture_taken[1] \in 1..3

C7_FailedRebindUnbound ==
    \A d \in Devices :
        (call.op = "input" /\ <<"refused", d>> \in Range(call.trace)) =>
            /\ call.raised
            /\ alarm[d].device = NONE
            /\ held = Handles

\* An input() released the buzzer's old pin, was refused the new one and
\* raised, the buzzer recording the pin it does not hold.
C7_Witness ==
    /\ call.op = "input" /\ call.raised
    /\ call.trace = <<<<"release", "buzzer">>, <<"refused", "buzzer">>>>
    /\ alarm.buzzer.device = NONE
    /\ alarm.buzzer.pin \notin held

\* C8: a failed AlarmSystem construction leaves no pin acquired.
C8_FailedConstructionHoldsNothing ==
    phase = "failed" => held = {}

\* C9 as claimed: a photo taken by output() leaves last_picture_taken as it
\* was.
C9_OutputLeavesPhotoStamp ==
    call.op = "output" =>
        alarm.last_picture_taken = call.entry.last_picture_taken

\* C9 as amended: output() takes its photo whatever last_picture_taken is,
\* but it stamps it: an output() with motion detected sets last_picture_taken
\* to its second, an output() without leaves it as it was.
C9_OutputStampsPhoto ==
    call.op = "output" =>
        alarm.last_picture_taken =
            IF alarm.motion_detected THEN <<now>>
            ELSE call.entry.last_picture_taken

\* An output() with motion detected moved a stamp that was within the
\* cooldown to its own second.
C9_Witness ==
    /\ call.op = "output" /\ alarm.motion_detected
    /\ call.entry.last_picture_taken # NONE
    /\ now - call.entry.last_picture_taken[1] \in 1..3
    /\ alarm.last_picture_taken = <<now>>

\* C10: every output() takes one photo when motion_detected is true and none
\* when it is false, whatever last_picture_taken and the alarm state are.
C10_OutputPhotoIffMotion ==
    call.op = "output" => Photos = IF alarm.motion_detected THEN 1 ELSE 0

\* An output() took a photo in the second of the photo before it, the alarm
\* being passive.
C10_Witness ==
    /\ call.op = "output" /\ alarm.motion_detected
    /\ ~Alert
    /\ call.entry.last_picture_taken = <<now>>
    /\ Photos = 1

\* C11: the controller's own pin mirrors the switch's pin: after construction
\* and after every input(), one that moved the switch to a new pin included,
\* AlarmSystem.pin equals switch.pin, and the record output() updates is
\* matched by that pin.
C11_PinMirrorsSwitch ==
    /\ (phase = "live" /\ ~call.raised) => alarm.pin = alarm.switch.pin
    /\ (call.op = "output" /\ ~call.raised) => call.key = <<alarm.switch.pin>>

\* C12: door_open and motion_detected hold the values derived from the sensors
\* by the most recent input() that read them (door_open = not switch active,
\* motion_detected = motion active), whatever alert_mode(), passive_mode(),
\* take_photo() and send_email() did later in that call, the mailer failing
\* included; output() and close() leave both as they were.
C12_SensorsDerived ==
    [][/\ (call'.op = "input" /\ Sensed("switch")' # NONE) =>
              alarm'.door_open = ~Sensed("switch")'[1]
       /\ (call'.op = "input" /\ Sensed("motion")' # NONE) =>
              alarm'.motion_detected = Sensed("motion")'[1]
       /\ call'.op \in {"output", "close"} =>
              /\ alarm'.door_open = alarm.door_open
              /\ alarm'.motion_detected = alarm.motion_detected]_vars

\* An output() took its photo with the door open and motion detected, and
\* both flags still stand.
C12_Witness ==
    /\ call.op = "output" /\ ~call.raised
    /\ Photos = 1
    /\ alarm.door_open /\ alarm.motion_detected
    /\ alarm.keep_on

\* C13: in every state of a constructed alarm, the state after a rejected
\* reconfiguration included, the pin recorded on each device lies in
\* MIN_GPIO .. MAX_GPIO: a pin outside the range is never stored.
C13_PinInRange ==
    phase = "live" => \A d \in Devices : alarm[d].pin \in MIN_GPIO..MAX_GPIO

\* C14: an input() that leaves a device on the pin it records releases
\* nothing and asks for nothing for it; an input() that gives it another pin
\* asks the platform for the new pin once, and when the device held a handle,
\* only after it released it; the platform never holds a pin reserved that is
\* not the one pin of a live handle of a device.
C14_ReleaseBeforeAcquire ==
    [][call'.op = "input" =>
          /\ held' = Handles'
          /\ \A d \in Devices :
                IF alarm'[d].pin = alarm[d].pin
                THEN /\ <<"release", d>> \notin Range(call'.trace)
                     /\ ~Asked(d)'
                ELSE /\ Asks(d)' = 1
                     /\ alarm[d].device # NONE => ReleasedThenAsked(d)']_vars

\* An input() moved the switch: it released its pin and then took the new one;
\* the buzzer, left on its pin, was not touched.
C14_Witness ==
    /\ Returned
    /\ ReleasedThenAsked("switch")
    /\ alarm.switch.device = <<alarm.switch.pin>>
    /\ ~Asked("buzzer")
    /\ <<"release", "buzzer">> \notin Range(call.trace)
    /\ held = Handles

\* C15: MotionSensor.output() is sticky: an output() that reads the sensor
\* active sets data to the second of the call, one that reads it inactive
\* leaves data as it was; data is unset by the constructor and no other call
\* writes it, so data is the second of the most recent output() that saw
\* motion, or unset if none did.
C15_MotionDataSticky ==
    [][/\ call'.op = "sensor.init" => sensor'.data = NONE
       /\ call'.op \in {"sensor.input", "sensor.close"} =>
              sensor'.data = sensor.data
       /\ call'.op = "sensor.output" =>
              sensor'.data = IF Sensed("sensor")' = <<TRUE>> THEN <<now'>>
                             ELSE sensor.data]_vars

\* An output() read the sensor inactive and left in place the second of an
\* earlier output() that saw motion.
C15_Witness ==
    /\ call.op = "sensor.output" /\ ~call.raised
    /\ Sensed("sensor") = <<FALSE>>
    /\ sensor.data # NONE
    /\ sensor.data[1] < now

\* C16: an input() that evaluates to PASSIVE and whose photo_toggle is the
\* stored one sends no email and takes no photo; a message is handed to the
\* mailer only inside an input() in which keep_on is true and the door is
\* open.
C16_PassiveIsQuiet ==
    [][/\ (Returned' /\ ~Alert' /\ alarm'.photo_toggle = alarm.photo_toggle) =>
              (~Mailed' /\ Photos' = 0)
       /\ Mailed' => (call'.op = "input" /\ alarm'.keep_on /\ alarm'.door_open)]_vars

\* An armed input() with the door closed, an email due (none sent yet) and a
\* photo due (none taken yet), sent nothing and took nothing.
C16_Witness ==
    /\ Returned
    /\ alarm.keep_on /\ ~alarm.door_open
    /\ call.entry.last_email_sent = NONE
    /\ call.entry.last_picture_taken = NONE
    /\ ~Mailed /\ Photos = 0
    /\ call.trace[Len(call.trace)] = <<"off", "buzzer">>

\* C17: with a clock that never runs backwards, two consecutive emails with
\* no PASSIVE input() between them are more than 3600 seconds apart, and a
\* run of ALERT cycles that starts with last_email_sent unset sends one email
\* in its first cycle and none in the 3600 seconds after it.  Step by step:
\* an email stamps last_email_sent with its second; the stamp then stays
\* until the next email or the next PASSIVE input(); an email sent while the
\* stamp is set is more than 3600 seconds after it, and an ALERT input()
\* sends one email when it finds the stamp unset and none when it finds it
\* at most 3600 seconds old.
C17_EmailsFarApart ==
    [][/\ now' >= now
       /\ Emails' > 0 => (Emails' = 1 /\ alarm'.last_email_sent = <<now'>>)
       /\ (Emails' = 0 /\ ~(call'.op = "input" /\ ~Alert')) =>
              alarm'.last_email_sent = alarm.last_email_sent
       /\ (Emails' > 0 /\ alarm.last_email_sent # NONE) =>
              now' - alarm.last_email_sent[1] > 3600
       /\ (Returned' /\ Alert' /\ alarm.last_email_sent = NONE) => Emails' = 1
       /\ (Returned' /\ Alert' /\ alarm.last_email_sent # NONE
              /\ now' - alarm.last_email_sent[1] <= 3600) => Emails' = 0]_vars

\* An ALERT input() ran 3600 seconds after the email of the run's first cycle
\* and sent none.
C17_Witness ==
    /\ Returned /\ Alert
    /\ call.entry.last_email_sent # NONE
    /\ now - call.entry.last_email_sent[1] = 3600
    /\ Emails = 0
    /\ alarm.last_email_sent = call.entry.last_email_sent

\* C18: when the mailer raises during alert_mode(), the input() raises with
\* last_email_sent as it was, the buzzer already switched on and the photo
\* step of the cycle not run (the mailer's failure is the last thing the call
\* did); the next input(), if it evaluates to ALERT, hands the message to the
\* mailer again.
C18_FailedEmailRetried ==
    [][/\ MailFailed' =>
              /\ call'.raised
              /\ alarm'.last_email_sent = alarm.last_email_sent
              /\ buzzer_active(alarm')
              /\ <<"on", "buzzer">> \in Range(call'.trace)
              /\ call'.trace[Len(call'.trace)] = <<"email_failed", "mailer">>
              /\ AlertPhotos' = 0
       /\ (MailFailed /\ call'.op = "input" /\ Alert') => Mailed']_vars

\* The mailer failed in an ALERT input() more than 3600 seconds after the
\* last email: the stamp is the old one, the buzzer sounds, and the photo that
\* was due (the last one is more than 3 seconds old) was not taken.
C18_Witness ==
    /\ MailFailed /\ call.raised
    /\ call.entry.last_email_sent # NONE
    /\ now - call.entry.last_email_sent[1] > 3600
    /\ alarm.last_email_sent = call.entry.last_email_sent
    /\ buzzer_active(alarm)
    /\ Photos = 0
    /\ alarm.last_picture_taken # NONE
    /\ now - alarm.last_picture_taken[1] > 3

\* C19: whenever input() on a device returns normally, the device holds a
\* live handle on the pin it records: after a refused move to a pin, an
\* input() with that same pin does not return normally with the device
\* unbound.
C19_ReturnedInputIsBound ==
    (call.op = "sensor.input" /\ ~call.raised) =>
        sensor.device = <<sensor.pin>>

\* C20: when the reconfiguration of one of the three devices raises inside
\* AlarmSystem.input(), the call raises and leaves emails, keep_on, door_open,
\* motion_detected, photo_toggle, last_email_sent and last_picture_taken as
\* they were; it reads no sensor, does not run the alert/passive evaluation
\* (the buzzer is not switched), sends no email and takes no photo.
C20_FailedRebindKeepsController ==
    [][Refused' =>
          /\ call'.raised
          /\ alarm'.emails = alarm.emails
          /\ alarm'.keep_on = alarm.keep_on
          /\ alarm'.door_open = alarm.door_open
          /\ alarm'.motion_detected = alarm.motion_detected
          /\ alarm'.photo_toggle = alarm.photo_toggle
          /\ alarm'.last_email_sent = alarm.last_email_sent
          /\ alarm'.last_picture_taken = alarm.last_picture_taken
          /\ \A d \in {"switch", "motion"} : Sensed(d)' = NONE
          /\ Count(call'.trace, "on") + Count(call'.trace, "off") = 0
          /\ ~Mailed' /\ Photos' = 0]_vars

\* The motion sensor, the last device input() rebinds, was refused its new
\* pin while the alarm was in an ALERT run with motion detected, two
\* recipients and both stamps set: all of it still stands.
C20_Witness ==
    /\ Refused /\ call.raised
    /\ <<"refused", "motion">> \in Range(call.trace)
    /\ alarm.keep_on /\ alarm.door_open /\ alarm.motion_detected
    /\ alarm.photo_toggle
    /\ alarm.emails = "a@x.org, b@y.org"
    /\ alarm.last_email_sent # NONE
    /\ alarm.last_picture_taken # NONE

====
